---- MODULE Spec2Model ----
(***************************************************************************)
(* A model of rslib/i18n/src/lib.rs: the locale fallback chain built by    *)
(* I18n::new, key lookup through I18n::tr_, the resource export, the       *)
(* bundle builder get_bundle and the number formatter                      *)
(* format_number_values.                                                   *)
(*                                                                         *)
(* Conventions.  An Option<T> is a sequence: <<>> is None, <<v>> is        *)
(* Some(v).  A text that is rendered character by character (a formatted   *)
(* number) is a sequence of one-character strings.  A Fluent resource text *)
(* is the sequence of the entries the Fluent parser reads from it.         *)
(***************************************************************************)
EXTENDS Integers, Sequences, FiniteSets, TLC

VARIABLES
    build,         \* the build: cfg!(test) and integer overflow checks
    catalog,       \* which catalog (generated::STRINGS) the build carries
    phase,         \* "uninitialized" before I18n::new returns, then "ready"
    locale_codes,  \* the argument I18n::new was called with
    inner,         \* the one I18nInner behind Arc<Mutex<..>>
    poisoned,      \* the Mutex's poison flag
    handles,       \* number of I18n handles (the Arc's strong count)
    last,          \* the call that just returned, until its caller drops the result
    fn_in,         \* arguments of a function applied on its own
    fn_out         \* what it returned, None before it is applied

vars == <<build, catalog, phase, locale_codes, inner, poisoned, handles, last,
          fn_in, fn_out>>

\* ------------------------------------------------------------------ bounds

\* longest locale list passed to I18n::new
MaxLocales == 2
\* most I18n handles alive (the original and its clones)
MaxHandles == 2
\* numeric values range over 0 .. MaxHundredths hundredths
MaxHundredths == 130
\* minimum_fraction_digits ranges over None and 0 .. MaxMinfd
MaxMinfd == 3
\* most entries in a resource text given to get_bundle
MaxEntries == 2

\* ------------------------------------------------------------------ options

None == <<>>
Some(v) == <<v>>
IsSome(o) == o # <<>>
Unwrap(o) == o[1]

\* ------------------------------------------------------------------ strings

RECURSIVE trim_end_matches(_, _)
\* str::trim_end_matches(c): drop every trailing c
trim_end_matches(s, c) ==
    IF s = <<>> \/ s[Len(s)] # c THEN s
    ELSE trim_end_matches(SubSeq(s, 1, Len(s) - 1), c)

\* str::find(c): Some(0-based index of the first c), or None
find(s, c) ==
    LET hits == {i \in 1..Len(s) : s[i] = c}
    IN  IF hits = {} THEN None
        ELSE Some((CHOOSE i \in hits : \A j \in hits : i <= j) - 1)

\* str::replace(from, to)
replace(s, from, to) == [i \in 1..Len(s) |-> IF s[i] = from THEN to ELSE s[i]]

\* "0".repeat(n)
repeat0(n) == [i \in 1..n |-> "0"]

DigitChar(d) == <<"0", "1", "2", "3", "4", "5", "6", "7", "8", "9">>[d + 1]

RECURSIVE Digits(_)
\* the decimal digits of a natural number
Digits(n) == IF n < 10 THEN <<DigitChar(n)>>
             ELSE Digits(n \div 10) \o <<DigitChar(n % 10)>>

\* format!("{number:.precision$}") with precision 2, for a value of h hundredths
FormatPrecision2(h) ==
    Digits(h \div 100) \o <<".">> \o <<DigitChar((h \div 10) % 10), DigitChar(h % 10)>>

\* ------------------------------------------------------------------ numbers

\* FluentValue::Number(FluentNumber { value, options.minimum_fraction_digits })
Number(h, minfd) == [type |-> "Number", value |-> h, minfd |-> minfd, s |-> <<>>]
\* FluentValue::String
String(s) == [type |-> "String", value |-> 0, minfd |-> None, s |-> s]

FmtSome(s) == [kind |-> "some", s |-> s, msg |-> ""]
FmtNone == [kind |-> "none", s |-> <<>>, msg |-> ""]
FmtPanic(msg) == [kind |-> "panic", s |-> <<>>, msg |-> msg]

\* minfd - frac_num on usize, then the padding.  When minfd < frac_num the
\* subtraction overflows: a build with overflow checks panics there; a build
\* without wraps to 2^w - (frac_num - minfd), which is > 0, and "0".repeat of
\* that count asks for more than isize::MAX bytes and panics in the allocator.
pad_to_minfd(val, minfd, overflow_checks) ==
    LET pos == find(val, ".")
    IN  IF ~IsSome(pos) THEN FmtPanic("expected . in formatted string")
        ELSE LET frac_num == Len(val) - Unwrap(pos) - 1
             IN  IF minfd < frac_num
                 THEN IF overflow_checks
                      THEN FmtPanic("attempt to subtract with overflow")
                      ELSE FmtPanic("capacity overflow")
                 ELSE LET zeros_needed == minfd - frac_num
                      IN  IF zeros_needed > 0
                          THEN FmtSome(val \o repeat0(zeros_needed))
                          ELSE FmtSome(val)

format_number_values(val, alt_separator, overflow_checks) ==
    IF val.type # "Number" THEN FmtNone
    ELSE
    LET with_max_precision == FormatPrecision2(val.value)
        trimmed == trim_end_matches(with_max_precision, "0")
        padded == IF IsSome(val.minfd)
                  THEN pad_to_minfd(trimmed, Unwrap(val.minfd), overflow_checks)
                  ELSE FmtSome(trimmed)
    IN  IF padded.kind = "panic" THEN padded
        ELSE LET result == trim_end_matches(padded.s, ".")
             IN  IF IsSome(alt_separator)
                 THEN FmtSome(replace(result, ".", Unwrap(alt_separator)))
                 ELSE FmtSome(result)

format_decimal_with_comma(val, overflow_checks) ==
    format_number_values(val, Some(","), overflow_checks)

format_decimal_with_period(val, overflow_checks) ==
    format_number_values(val, None, overflow_checks)

\* ------------------------------------------------------------------ locales

\* a unic_langid LanguageIdentifier: language and region ("" when absent)
LangId(language, region) == [language |-> language, region |-> region]

\* the locale strings callers pass in
Codes == {"en", "en-GB", "ja_JP", "pl-PL", "zz", "!!"}

\* code.parse::<LanguageIdentifier>(): Ok(lang) as Some(lang), Err as None.
\* "-" and "_" both separate the subtags; "!!" is not a language tag.
parse(code) ==
    CASE code = "en" -> Some(LangId("en", ""))
      [] code = "en-GB" -> Some(LangId("en", "GB"))
      [] code = "en-US" -> Some(LangId("en", "US"))
      [] code = "ja_JP" -> Some(LangId("ja", "JP"))
      [] code = "pl-PL" -> Some(LangId("pl", "PL"))
      [] code = "zz" -> Some(LangId("zz", ""))
      [] OTHER -> None

\* LanguageIdentifier::to_string
to_string(lang) ==
    IF lang.region = "" THEN <<lang.language>> ELSE <<lang.language, "-", lang.region>>

remapped_lang_name(lang) ==
    LET region == lang.region
    IN  CASE lang.language = "en" ->
               (IF region \in {"GB", "AU"} THEN "en-GB" ELSE "templates")
          [] lang.language = "zh" ->
               (IF region \in {"TW", "HK"} THEN "zh-TW" ELSE "zh-CN")
          [] lang.language = "pt" ->
               (IF region = "PT" THEN "pt-PT" ELSE "pt-BR")
          [] lang.language = "ga" -> "ga-IE"
          [] lang.language = "hy" -> "hy-AM"
          [] lang.language = "nb" -> "nb-NO"
          [] lang.language = "sv" -> "sv-SE"
          [] OTHER -> lang.language

\* num_format::Locale::from_name(name).decimal(): Some(separator), None when
\* num_format knows no such locale
LocaleDecimal(name) ==
    CASE name \in {"en", "en_GB", "ja"} -> Some(".")
      [] name = "pl" -> Some(",")
      [] OTHER -> None

\* try to locate a num_format locale for a given language identifier
num_format_locale(lang) ==
    LET withRegion == IF lang.region # ""
                      THEN LocaleDecimal(lang.language \o "_" \o lang.region)
                      ELSE None
    IN  IF IsSome(withRegion) THEN withRegion ELSE LocaleDecimal(lang.language)

RECURSIVE first_available_num_format_locale(_)
first_available_num_format_locale(langs) ==
    IF langs = <<>> THEN None
    ELSE IF IsSome(num_format_locale(Head(langs))) THEN num_format_locale(Head(langs))
    ELSE first_available_num_format_locale(Tail(langs))

\* want_comma_as_decimal_separator deciding by the last locale of the list,
\* which every bundle of a chain shares, instead of the first
want_comma_of_last_locale(langs) ==
    LET locale == num_format_locale(langs[Len(langs)])
        separator == IF IsSome(locale) THEN Unwrap(locale) ELSE "."
    IN  separator = ","

want_comma_as_decimal_separator(langs) ==
    LET locale == first_available_num_format_locale(langs)
        separator == IF IsSome(locale) THEN Unwrap(locale) ELSE "."
    IN  separator = ","

\* the formatter set_bundle_formatter_for_langs attaches
set_bundle_formatter_for_langs(langs) ==
    IF want_comma_as_decimal_separator(langs)
    THEN "format_decimal_with_comma"
    ELSE "format_decimal_with_period"

\* ------------------------------------------------------------------ resources

\* a message pattern: its text with the placeables left in, and the variables
\* of its placeables in order
Pat(lit, pvars) == [lit |-> lit, vars |-> pvars]
\* an entry of a resource text: a message with a value pattern, a message with
\* attributes only (no value), or text the Fluent parser rejects
Msg(id, pat) == [junk |-> FALSE, id |-> id, value |-> Some(pat)]
MsgNoValue(id) == [junk |-> FALSE, id |-> id, value |-> None]
Junk == [junk |-> TRUE, id |-> "", value |-> None]

\* Some sample text for testing purposes.  (The select expression of "plural"
\* is kept as one placeable on $hats.)
test_en_text ==
    << Msg("valid-key", Pat("a valid key", <<>>)),
       Msg("only-in-english", Pat("not translated", <<>>)),
       Msg("two-args-key", Pat("two args: {$one} and {$two}", <<"one", "two">>)),
       Msg("plural", Pat("You have {$hats -> ...}.", <<"hats">>)) >>

test_jp_text ==
    << Msg("valid-key", Pat("kii", <<>>)),
       Msg("two-args-key", Pat("{$one} to {$two}", <<"one", "two">>)) >>

test_pl_text ==
    << Msg("one-arg-key", Pat("fake Polish {$one}", <<"one">>)) >>

\* FluentResource::try_new: Ok when every entry parses; the resource holds the
\* entries that did parse either way
try_new(text) ==
    [ok |-> \A i \in 1..Len(text) : ~text[i].junk,
     res |-> SelectSeq(text, LAMBDA e : ~e.junk)]

EmptyEntries == [id \in {} |-> None]
Insert(entries, e) ==
    [id \in DOMAIN entries \cup {e.id} |-> IF id = e.id THEN e.value ELSE entries[id]]

RECURSIVE add_resource(_, _)
\* FluentBundle::add_resource: a message whose id the bundle already holds is
\* reported (FluentError::Overriding) and left out
add_resource(entries, res) ==
    IF res = <<>> THEN [ok |-> TRUE, entries |-> entries]
    ELSE IF Head(res).id \in DOMAIN entries
         THEN [ok |-> FALSE, entries |-> add_resource(entries, Tail(res)).entries]
         ELSE add_resource(Insert(entries, Head(res)), Tail(res))

RECURSIVE add_resource_overriding(_, _)
\* FluentBundle::add_resource_overriding: a later message replaces an earlier one
add_resource_overriding(entries, res) ==
    IF res = <<>> THEN entries
    ELSE add_resource_overriding(Insert(entries, Head(res)), Tail(res))

\* FluentBundle::new(locales); use_isolating starts true
Bundle(locales, entries, formatter) ==
    [locales |-> locales, entries |-> entries, formatter |-> formatter,
     use_isolating |-> TRUE]

\* add_extra_text keeping the entries of an extra text that did parse
add_extra_text_keeps_partial(entries, extra_text) ==
    IF extra_text # <<>>
    THEN add_resource_overriding(entries, try_new(extra_text).res)
    ELSE entries

\* the override step of get_bundle: extra text that fails to parse is dropped whole
add_extra_text(entries, extra_text) ==
    IF extra_text # <<>>
    THEN IF try_new(extra_text).ok
         THEN add_resource_overriding(entries, try_new(extra_text).res)
         ELSE entries
    ELSE entries

get_bundle(text, extra_text, locales) ==
    LET res == try_new(text)
        added == add_resource(EmptyEntries, res.res)
    IN  IF ~res.ok THEN None
        ELSE IF ~added.ok THEN None
        ELSE Some(Bundle(locales, add_extra_text(added.entries, extra_text),
                         set_bundle_formatter_for_langs(locales)))

\* the test strings injected when cfg!(test)
test_extra_text(lang) ==
    CASE ~IsSome(lang) -> test_en_text
      [] IsSome(lang) /\ Unwrap(lang).language = "ja" -> test_jp_text
      [] IsSome(lang) /\ Unwrap(lang).language = "pl" -> test_pl_text
      [] OTHER -> <<>>

bundle_locales(lang) ==
    (IF IsSome(lang) THEN <<Unwrap(lang)>> ELSE <<>>) \o <<Unwrap(parse("en-US"))>>

\* Get a bundle that includes any filesystem overrides.
get_bundle_with_extra(text, lang, test) ==
    get_bundle(text, IF test THEN test_extra_text(lang) ELSE <<>>, bundle_locales(lang))

\* ------------------------------------------------------------------ catalog

TemplatesText ==
    << Msg("catalog-key", Pat("cards: {$one}", <<"one">>)),
       Msg("valid-key", Pat("valid key of the catalog", <<>>)) >>

\* the catalogs a build can carry.  In "damaged" one text does not parse and
\* in another two modules define one key.
Catalogs == {"shipped", "damaged"}

\* generated::STRINGS with every module's text of a language concatenated
STRINGS(which) ==
    IF which = "shipped"
    THEN [name \in {"templates", "en-GB", "ja", "pl"} |->
            CASE name = "templates" -> TemplatesText
              [] name = "en-GB" -> <<Msg("catalog-key", Pat("cards (GB): {$one}", <<"one">>))>>
              [] name = "ja" -> <<MsgNoValue("catalog-key")>>
              [] name = "pl" -> <<Msg("catalog-key", Pat("karty: {$one}", <<"one">>))>>]
    ELSE [name \in {"templates", "ja", "pl"} |->
            CASE name = "templates" -> TemplatesText
              [] name = "ja" -> <<Msg("valid-key", Pat("kii", <<>>)), Junk>>
              [] name = "pl" -> <<Msg("catalog-key", Pat("karty: {$one}", <<"one">>)),
                                  Msg("catalog-key", Pat("karty {$one}", <<"one">>))>>]

ftl_localized_text(lang, strings) ==
    LET name == remapped_lang_name(lang)
    IN  IF name \in DOMAIN strings THEN Some(strings[name]) ELSE None

\* generated::KEYS_BY_MODULE
KEYS_BY_MODULE == << <<"valid-key", "catalog-key">>, <<"two-args-key">> >>

get_key(module_idx, translation_idx) ==
    IF module_idx + 1 \in DOMAIN KEYS_BY_MODULE
       /\ translation_idx + 1 \in DOMAIN KEYS_BY_MODULE[module_idx + 1]
    THEN KEYS_BY_MODULE[module_idx + 1][translation_idx + 1]
    ELSE "invalid-module-or-translation-index"

get_key_legacy(val) == get_key(val \div 1000, val % 1000)

\* ------------------------------------------------------------------ I18n::new

\* input_langs without the break at the first "en": every code that parses
input_langs_no_break(codes) ==
    LET parsed == [i \in 1..Len(codes) |-> parse(codes[i])]
        kept == SelectSeq(parsed, IsSome)
    IN  [i \in 1..Len(kept) |-> Unwrap(kept[i])]

RECURSIVE input_langs(_)
\* the first loop of I18n::new: the codes that parse, up to and including the
\* first whose language is "en"
input_langs(codes) ==
    IF codes = <<>> THEN <<>>
    ELSE LET lang == parse(Head(codes))
         IN  IF ~IsSome(lang) THEN input_langs(Tail(codes))
             ELSE IF Unwrap(lang).language = "en" THEN <<Unwrap(lang)>>
             ELSE <<Unwrap(lang)>> \o input_langs(Tail(codes))

\* the text I18n::new builds a language's bundle from: the bundled text, or
\* the empty text when testing
text_for_lang(lang, strings, test) ==
    LET text == ftl_localized_text(lang, strings)
    IN  IF IsSome(text) THEN text ELSE IF test THEN Some(<<>>) ELSE None

Entry(lang, text, bundle) == [lang |-> lang, text |-> text, bundle |-> bundle]

RECURSIVE preferred_entries(_, _, _)
\* the second loop of I18n::new: one entry per language that has a text and
\* whose bundle could be built
preferred_entries(langs, strings, test) ==
    IF langs = <<>> THEN <<>>
    ELSE LET lang == Head(langs)
             text == text_for_lang(lang, strings, test)
             bundle == IF IsSome(text)
                       THEN get_bundle_with_extra(Unwrap(text), Some(lang), test)
                       ELSE None
             rest == preferred_entries(Tail(langs), strings, test)
         IN  IF IsSome(bundle)
             THEN <<Entry(lang, Unwrap(text), Unwrap(bundle))>> \o rest
             ELSE rest

\* add English templates
template_entry(strings, test) ==
    LET template_lang == Unwrap(parse("en-US"))
        template_text == Unwrap(ftl_localized_text(template_lang, strings))
    IN  Entry(template_lang, template_text,
              Unwrap(get_bundle_with_extra(template_text, None, test)))

\* chain_entries with the template pushed before the preferred entries
chain_entries_template_first(preferred, template) == <<template>> \o preferred

\* chain_entries with the entries of language "en" moved to the front
chain_entries_en_first(preferred, template) ==
    SelectSeq(preferred, LAMBDA e : e.lang.language = "en")
    \o SelectSeq(preferred, LAMBDA e : e.lang.language # "en")
    \o <<template>>

\* the pushes of I18n::new in their order: the preferred entries, then the template
chain_entries(preferred, template) == preferred \o <<template>>

\* disable isolation characters in test mode
set_use_isolating(bundles, value) ==
    [i \in 1..Len(bundles) |-> [bundles[i] EXCEPT !.use_isolating = value]]

new(codes, strings, test) ==
    LET entries == chain_entries(preferred_entries(input_langs(codes), strings, test),
                                 template_entry(strings, test))
        bundles == [i \in 1..Len(entries) |-> entries[i].bundle]
    IN  [bundles |-> IF codes = <<>> \/ test
                     THEN set_use_isolating(bundles, FALSE)
                     ELSE bundles,
         langs |-> [i \in 1..Len(entries) |-> entries[i].lang],
         resource_text |-> [i \in 1..Len(entries) |-> entries[i].text]]

\* ------------------------------------------------------------------ lookup

Text(text, parts, errs, idx) ==
    [kind |-> "text", text |-> text, parts |-> parts, errs |-> errs, bundle_idx |-> idx]
Panic(msg) ==
    [kind |-> "panic", text |-> msg, parts |-> <<>>, errs |-> 0, bundle_idx |-> 0]

\* the bundle's formatter applied to a value
apply_formatter(bundle, val, overflow_checks) ==
    IF bundle.formatter = "format_decimal_with_comma"
    THEN format_decimal_with_comma(val, overflow_checks)
    ELSE format_decimal_with_period(val, overflow_checks)

\* the directional isolation marks around a placeable
Isolate(bundle, s) == IF bundle.use_isolating THEN <<"FSI">> \o s \o <<"PDI">> ELSE s

\* one placeable of FluentBundle::format_pattern: a number goes through the
\* bundle's formatter, a string is written as it is, and a variable the
\* arguments do not hold is written as {$name} and reported in errs
format_placeable(bundle, name, args, overflow_checks) ==
    IF ~IsSome(args) \/ name \notin DOMAIN Unwrap(args)
    THEN [kind |-> "error", s |-> <<"{$", name, "}">>, msg |-> "unknown variable"]
    ELSE LET val == Unwrap(args)[name]
             formatted == apply_formatter(bundle, val, overflow_checks)
         IN  IF formatted.kind = "none" THEN FmtSome(Isolate(bundle, val.s))
             ELSE IF formatted.kind = "panic" THEN formatted
             ELSE FmtSome(Isolate(bundle, formatted.s))

\* FluentBundle::format_pattern, with the errors it pushed counted
format_pattern(bundle, pat, args, overflow_checks, idx) ==
    LET parts == [i \in 1..Len(pat.vars) |->
                     format_placeable(bundle, pat.vars[i], args, overflow_checks)]
        panics == {i \in 1..Len(parts) : parts[i].kind = "panic"}
    IN  IF panics # {}
        THEN Panic(parts[CHOOSE i \in panics : \A j \in panics : i <= j].msg)
        ELSE Text(pat.lit, [i \in 1..Len(parts) |-> parts[i].s],
                  Cardinality({i \in 1..Len(parts) : parts[i].kind = "error"}), idx)

RECURSIVE walk_bundles(_, _, _, _, _)
\* the loop of I18n::tr_ from bundle i on
walk_bundles(bundles, i, key, args, overflow_checks) ==
    IF i > Len(bundles)
    THEN Text(key, <<>>, 0, 0)             \* return the key name if it was missing
    ELSE IF key \notin DOMAIN bundles[i].entries
         THEN walk_bundles(bundles, i + 1, key, args, overflow_checks)
         ELSE IF ~IsSome(bundles[i].entries[key])
              THEN walk_bundles(bundles, i + 1, key, args, overflow_checks)
              ELSE format_pattern(bundles[i], Unwrap(bundles[i].entries[key]), args,
                                  overflow_checks, i)

\* I18n::tr_: lock().unwrap() panics on a poisoned lock; the guard is held for
\* the whole loop
tr_(in, is_poisoned, key, args, overflow_checks) ==
    IF is_poisoned THEN Panic("PoisonError")
    ELSE walk_bundles(in.bundles, 1, key, args, overflow_checks)

\* I18n::resources_for_js
resources_for_js(in, is_poisoned) ==
    IF is_poisoned THEN Panic("PoisonError")
    ELSE [kind |-> "resources", text |-> "",
          parts |-> [i \in 1..Len(in.langs) |-> to_string(in.langs[i])],
          errs |-> 0, bundle_idx |-> 0, resources |-> in.resource_text]

\* ------------------------------------------------------------------ inputs

\* the builds: cargo test (dev profile, overflow checks on), a debug build
\* (checks on) and a release build (checks off)
Builds ==
    { [test |-> TRUE, overflow_checks |-> TRUE],
      [test |-> FALSE, overflow_checks |-> TRUE],
      [test |-> FALSE, overflow_checks |-> FALSE] }

RECURSIVE SeqsUpTo(_, _)
\* the sequences over S of length at most n
SeqsUpTo(S, n) ==
    IF n = 0 THEN {<<>>}
    ELSE LET shorter == SeqsUpTo(S, n - 1)
         IN  shorter \cup {Append(q, x) : q \in shorter, x \in S}

\* the locale lists I18n::new is called with: no code twice
LocaleLists ==
    {q \in SeqsUpTo(Codes, MaxLocales) :
        \A i, j \in 1..Len(q) : i # j => q[i] # q[j]}

\* the keys looked up: in the test texts, in the catalog, in neither
Keys == {"valid-key", "catalog-key", "one-arg-key", "two-args-key", "invalid-key"}
\* legacy numeric keys: module 1 index 0, and one of no module
LegacyVals == {1000, 2001}

\* 2.07, 1.25 with at least 1 fraction digit, 1.0 with at least 3
ArgValues == {Number(207, None), Number(125, Some(1)), Number(100, Some(3))}

\* Option<FluentArgs>
ArgsChoices ==
    {None}
    \cup {Some("one" :> v) : v \in ArgValues}
    \cup {Some(("one" :> Number(100, None)) @@ ("two" :> v)) :
             v \in {String(<<"2">>), Number(207, None)}}

\* the arguments format_number_values is applied to
NumberInputs ==
    [val : {Number(h, m) : h \in 0..MaxHundredths,
                           m \in {None} \cup {Some(n) : n \in 0..MaxMinfd}}
           \cup {String(<<"2">>)},
     sep : {None, Some(",")}]

\* the resource texts get_bundle is applied to
BundleEntries ==
    {Msg("a", Pat("x", <<>>)), Msg("a", Pat("y", <<>>)), Msg("b", Pat("x", <<>>)),
     MsgNoValue("b"), Junk}
BundleInputs ==
    [text : SeqsUpTo(BundleEntries, MaxEntries),
     extra_text : SeqsUpTo(BundleEntries, MaxEntries)]

\* ------------------------------------------------------------------ engine

NoInner == [bundles |-> <<>>, langs |-> <<>>, resource_text |-> <<>>]
NoCall == [op |-> "none", handle |-> 0, key |-> "", args |-> None,
           out |-> Text("", <<>>, 0, 0)]
Call(op, h, key, args, out) ==
    [op |-> op, handle |-> h, key |-> key, args |-> args, out |-> out]

Init ==
    /\ build \in Builds
    /\ catalog \in Catalogs
    /\ phase = "uninitialized"
    /\ locale_codes = <<>>
    /\ inner = NoInner
    /\ poisoned = FALSE
    /\ handles = 0
    /\ last = NoCall
    /\ fn_in = <<>>
    /\ fn_out = <<>>

\* I18n::new(locale_codes); I18n::template_only() is the empty list
New(codes) ==
    /\ phase = "uninitialized"
    /\ phase' = "ready"
    /\ locale_codes' = codes
    /\ inner' = new(codes, STRINGS(catalog), build.test)
    /\ handles' = 1
    /\ UNCHANGED <<build, catalog, poisoned, last, fn_in, fn_out>>

\* #[derive(Clone)]: one more handle on the same Arc, taken between calls
Clone ==
    /\ phase = "ready"
    /\ last = NoCall
    /\ handles < MaxHandles
    /\ handles' = handles + 1
    /\ UNCHANGED <<build, catalog, phase, locale_codes, inner, poisoned, last,
                   fn_in, fn_out>>

\* a call that locks the Mutex: a panic while the guard is held poisons it.
\* The lock serialises the calls, so each is one step.
Locked(op, h, key, args, out) ==
    /\ last' = Call(op, h, key, args, out)
    /\ poisoned' = (poisoned \/ out.kind = "panic")
    /\ UNCHANGED <<build, catalog, phase, locale_codes, inner, handles, fn_in, fn_out>>

\* I18n::tr_ on handle h
Tr_(h, key, args) ==
    /\ phase = "ready"
    /\ last = NoCall
    /\ Locked("tr_", h, key, args, tr_(inner, poisoned, key, args, build.overflow_checks))

\* I18n::tr, I18n::trn and I18n::trn2 on handle h: the key of a legacy number
Trn2(h, val, args) ==
    /\ phase = "ready"
    /\ last = NoCall
    /\ Locked("trn2", h, get_key_legacy(val), args,
              tr_(inner, poisoned, get_key_legacy(val), args, build.overflow_checks))

\* I18n::resources_for_js on handle h
ResourcesForJs(h) ==
    /\ phase = "ready"
    /\ last = NoCall
    /\ Locked("resources_for_js", h, "", None, resources_for_js(inner, poisoned))

\* the caller is done with what the call returned
Return ==
    /\ last # NoCall
    /\ last' = NoCall
    /\ UNCHANGED <<build, catalog, phase, locale_codes, inner, poisoned, handles,
                   fn_in, fn_out>>

Next ==
    \/ \E codes \in LocaleLists : New(codes)
    \/ Clone
    \/ \E h \in 1..handles, key \in Keys, args \in ArgsChoices : Tr_(h, key, args)
    \/ \E h \in 1..handles, val \in LegacyVals, args \in ArgsChoices : Trn2(h, val, args)
    \/ \E h \in 1..handles : ResourcesForJs(h)
    \/ Return

Spec == Init /\ [][Next]_vars

\* ------------------------------------------------------------------ format_number_values alone

InitNumber ==
    /\ build \in {b \in Builds : ~b.test}
    /\ catalog = "shipped"
    /\ phase = "uninitialized"
    /\ locale_codes = <<>>
    /\ inner = NoInner
    /\ poisoned = FALSE
    /\ handles = 0
    /\ last = NoCall
    /\ fn_in \in NumberInputs
    /\ fn_out = None

FormatNumber ==
    /\ fn_out = None
    /\ fn_out' = Some(format_number_values(fn_in.val, fn_in.sep, build.overflow_checks))
    /\ UNCHANGED <<build, catalog, phase, locale_codes, inner, poisoned, handles, last,
                   fn_in>>

NextNumber == FormatNumber

SpecNumber == InitNumber /\ [][NextNumber]_vars

\* ------------------------------------------------------------------ get_bundle alone

InitBundle ==
    /\ build = [test |-> FALSE, overflow_checks |-> TRUE]
    /\ catalog = "shipped"
    /\ phase = "uninitialized"
    /\ locale_codes = <<>>
    /\ inner = NoInner
    /\ poisoned = FALSE
    /\ handles = 0
    /\ last = NoCall
    /\ fn_in \in BundleInputs
    /\ fn_out = None

GetBundle ==
    /\ fn_out = None
    /\ fn_out' = Some(get_bundle(fn_in.text, fn_in.extra_text, bundle_locales(None)))
    /\ UNCHANGED <<build, catalog, phase, locale_codes, inner, poisoned, handles, last,
                   fn_in>>

NextBundle == GetBundle

SpecBundle == InitBundle /\ [][NextBundle]_vars

\* ------------------------------------------------------------------ properties

TemplateLang == LangId("en", "US")
Front(q) == SubSeq(q, 1, Len(q) - 1)
Range(q) == {q[i] : i \in 1..Len(q)}

\* every code of the list that parses, in list order
ParsedAll(codes) == input_langs_no_break(codes)

\* index of the first entry whose language is "en", 0 when there is none
FirstEn(langs) ==
    LET ens == {i \in 1..Len(langs) : langs[i].language = "en"}
    IN  IF ens = {} THEN 0 ELSE CHOOSE i \in ens : \A j \in ens : i <= j

RECURSIVE IsSubseq(_, _)
\* q is t with some elements left out
IsSubseq(q, t) ==
    IF q = <<>> THEN TRUE
    ELSE IF t = <<>> THEN FALSE
    ELSE IF Head(q) = Head(t) THEN IsSubseq(Tail(q), Tail(t))
    ELSE IsSubseq(q, Tail(t))

IsLookup(call) == call.op \in {"tr_", "trn2"}

\* the bundles of the chain that hold the key with a value pattern
BundlesWithValue(key) ==
    {i \in 1..Len(inner.bundles) :
        key \in DOMAIN inner.bundles[i].entries /\ IsSome(inner.bundles[i].entries[key])}

\* the decimal separator a rendered placeable shows, "" when it shows none
SepOf(part) ==
    IF "," \in Range(part) THEN "," ELSE IF "." \in Range(part) THEN "." ELSE ""

\* the separator of a bundle's formatter
SepOfFormatter(bundle) ==
    IF bundle.formatter = "format_decimal_with_comma" THEN "," ELSE "."

\* C1: whatever list I18n::new was given, the chain is non-empty, its last
\* entry is the en-US template bundle with the template text, and every entry
\* before it is a preferred-locale bundle (none is placed after the template).
C1_TerminalEntryIsReference ==
    phase = "ready" =>
        LET n == Len(inner.bundles)
        IN  /\ n >= 1
            /\ Len(inner.langs) = n
            /\ Len(inner.resource_text) = n
            /\ inner.langs[n] = TemplateLang
            /\ inner.bundles[n].locales = <<TemplateLang>>
            /\ inner.resource_text[n] = STRINGS(catalog)["templates"]
            /\ \A i \in 1..(n - 1) :
                   inner.bundles[i].locales = <<inner.langs[i], TemplateLang>>

\* C1 witness: a list that names a locale and then "en" gave a chain of three
\* entries: the locale, the "en" entry and the template.
C1_Witness ==
    /\ phase = "ready"
    /\ locale_codes = <<"pl-PL", "en">>
    /\ Len(inner.bundles) = 3
    /\ inner.langs[3] = TemplateLang

\* C4: when an entry that parses has language "en", the chain holds bundles of
\* entries up to and including the first such entry only, in list order, and
\* then the template: nothing is built for an entry after it.
C4_NothingBuiltAfterFirstEn ==
    phase = "ready" =>
        LET all == ParsedAll(locale_codes)
            k == FirstEn(all)
        IN  k > 0 =>
                /\ IsSubseq(Front(inner.langs), SubSeq(all, 1, k))
                /\ Len(inner.bundles) - 1 <= k

\* C4 witness: "en" was listed before another locale that parses.
C4_Witness ==
    /\ phase = "ready"
    /\ FirstEn(ParsedAll(locale_codes)) > 0
    /\ FirstEn(ParsedAll(locale_codes)) < Len(ParsedAll(locale_codes))

\* C6 as stated: when the parsed list contains language "en", the first bundle
\* a lookup consults is the reference-language one.
C6_ReferencePromotedFirst ==
    phase = "ready" =>
        (FirstEn(ParsedAll(locale_codes)) > 0 => inner.langs[1].language = "en")

\* C6 as amended: when the parsed list contains language "en", the chain keeps
\* the list order: the bundles of the locales listed before that entry come
\* first, in list order, then that entry's own bundle when it has one, directly
\* before the template.
C6_ReferenceKeepsItsPlace ==
    phase = "ready" =>
        LET all == ParsedAll(locale_codes)
            k == FirstEn(all)
            n == Len(inner.langs)
            preferred == Front(inner.langs)
        IN  k > 0 =>
                /\ \A i \in 1..(n - 1) : inner.langs[i].language = "en" => i = n - 1
                /\ IsSubseq(SelectSeq(preferred, LAMBDA l : l.language # "en"),
                            SubSeq(all, 1, k - 1))
                /\ \A i \in 1..(n - 1) : inner.langs[i].language = "en" => inner.langs[i] = all[k]

\* C6 witness: "en" was listed second, and the bundle of the locale listed
\* before it is consulted first.
C6_Witness ==
    /\ phase = "ready"
    /\ FirstEn(ParsedAll(locale_codes)) = 2
    /\ Len(inner.langs) = 3
    /\ inner.langs[1].language # "en"
    /\ inner.langs[2].language = "en"

\* C2 as stated: a lookup of a key that no bundle of the chain holds returns
\* the key itself, with nothing substituted.
C2_MissingKeyReturnsKey ==
    (IsLookup(last)
     /\ \A i \in 1..Len(inner.bundles) : last.key \notin DOMAIN inner.bundles[i].entries)
        => last.out = Text(last.key, <<>>, 0, 0)

\* C2 on a lock that is not poisoned: the lookup of a missing key returns the key.
C2_MissingKeyReturnsKeyUnpoisoned ==
    (IsLookup(last) /\ ~poisoned
     /\ \A i \in 1..Len(inner.bundles) : last.key \notin DOMAIN inner.bundles[i].entries)
        => last.out = Text(last.key, <<>>, 0, 0)

\* C3 as stated: a lookup returns the text rendered by the first bundle, in
\* chain order, that holds the key with a value pattern; bundles without the
\* key or without a value are skipped and later bundles play no part.
C3_FirstBundleWithValueWins ==
    (IsLookup(last) /\ BundlesWithValue(last.key) # {})
        => LET first == CHOOSE i \in BundlesWithValue(last.key) :
                            \A j \in BundlesWithValue(last.key) : i <= j
               pat == Unwrap(inner.bundles[first].entries[last.key])
           IN  /\ last.out.kind = "text"
               /\ last.out.bundle_idx = first
               /\ last.out.text = pat.lit
               /\ Len(last.out.parts) = Len(pat.vars)

\* C3 for the lookups that return: the text is the first such bundle's.
C3_FirstBundleWithValueWinsWhenReturned ==
    (IsLookup(last) /\ BundlesWithValue(last.key) # {} /\ last.out.kind = "text")
        => LET first == CHOOSE i \in BundlesWithValue(last.key) :
                            \A j \in BundlesWithValue(last.key) : i <= j
               pat == Unwrap(inner.bundles[first].entries[last.key])
           IN  /\ last.out.bundle_idx = first
               /\ last.out.text = pat.lit
               /\ Len(last.out.parts) = Len(pat.vars)

\* C5 as stated: one decimal separator for the whole chain: every bundle has
\* the same formatter, and a number rendered by any bundle, the template
\* included, shows the separator of the first bundle.
C5_SeparatorChainGlobal ==
    phase = "ready" =>
        /\ \A i, j \in 1..Len(inner.bundles) :
               inner.bundles[i].formatter = inner.bundles[j].formatter
        /\ (IsLookup(last) /\ last.out.kind = "text") =>
               \A p \in 1..Len(last.out.parts) :
                   SepOf(last.out.parts[p]) \in {"", SepOfFormatter(inner.bundles[1])}

\* C5 as amended: the separator is chosen per bundle from the bundle's own
\* locale: a preferred bundle renders with a comma exactly when its locale's
\* numeric locale uses one, the template bundle always renders with a period,
\* and a number shows the separator of the bundle that served the lookup.
C5_SeparatorPerBundle ==
    phase = "ready" =>
        LET n == Len(inner.bundles)
        IN  /\ inner.bundles[n].formatter = "format_decimal_with_period"
            /\ \A i \in 1..(n - 1) :
                   (inner.bundles[i].formatter = "format_decimal_with_comma")
                       <=> (num_format_locale(inner.langs[i]) = Some(","))
            /\ (IsLookup(last) /\ last.out.kind = "text" /\ last.out.bundle_idx > 0) =>
                   \A p \in 1..Len(last.out.parts) :
                       SepOf(last.out.parts[p])
                           \in {"", SepOfFormatter(inner.bundles[last.out.bundle_idx])}

\* C5 witness: the first bundle renders with a comma, and a key found only in
\* the template bundle rendered 2.07 with a period.
C5_Witness ==
    /\ phase = "ready"
    /\ Len(inner.bundles) = 2
    /\ inner.bundles[1].formatter = "format_decimal_with_comma"
    /\ IsLookup(last)
    /\ last.out.kind = "text"
    /\ last.out.bundle_idx = 2
    /\ \E p \in 1..Len(last.out.parts) : last.out.parts[p] = <<"2", ".", "0", "7">>

\* C7 as stated: every lookup returns a text.
C7_LookupAlwaysReturnsText ==
    IsLookup(last) => last.out.kind = "text"

\* C8 as stated: no call changes the chain, the language list or the resource
\* texts, and what a lookup returns is decided by the chain, the key and the
\* arguments alone, whichever handle issues it and whatever calls came before.
C8_ChainImmutableAndShared ==
    [][ /\ phase = "ready" => inner' = inner
        /\ IsLookup(last') =>
               last'.out = walk_bundles(inner.bundles, 1, last'.key, last'.args,
                                        build.overflow_checks) ]_vars

\* C8, the part about the chain: once built it never changes.
C8_ChainNeverChanges ==
    [][phase = "ready" => inner' = inner]_vars

\* ------------------------------------------------------------------ properties of format_number_values

\* the fraction digits left of a value of h hundredths once trailing zeros go
RemainingDigits(h) ==
    IF h % 100 = 0 THEN <<>>
    ELSE IF h % 10 = 0 THEN <<DigitChar((h \div 10) % 10)>>
    ELSE <<DigitChar((h \div 10) % 10), DigitChar(h % 10)>>

\* what C9 says format_number_values writes
ExpectedNumber(h, minfd, sep) ==
    LET remaining == RemainingDigits(h)
        m == IF IsSome(minfd) THEN Unwrap(minfd) ELSE 0
        count == IF m > Len(remaining) THEN m ELSE Len(remaining)
        frac == [i \in 1..count |-> IF i <= Len(remaining) THEN remaining[i] ELSE "0"]
    IN  IF count = 0 THEN Digits(h \div 100)
        ELSE Digits(h \div 100) \o <<IF IsSome(sep) THEN Unwrap(sep) ELSE ".">> \o frac

\* C9 as stated: for every value and every minimum-fraction-digit count m the
\* result has max(m, remaining fraction digits) fraction digits: zeros are
\* added only when m is greater, the digits are left alone when m is less or
\* equal, the point goes when no fraction digit is left, and "." becomes the
\* chosen separator.
C9_FractionDigitsAreMaxOfMinAndRemaining ==
    (IsSome(fn_out) /\ fn_in.val.type = "Number")
        => Unwrap(fn_out) =
               FmtSome(ExpectedNumber(fn_in.val.value, fn_in.val.minfd, fn_in.sep))

\* C9 when m is absent or not less than the fraction digits that remain.
C9_HoldsWhenMinfdNotLess ==
    (IsSome(fn_out) /\ fn_in.val.type = "Number"
     /\ (IsSome(fn_in.val.minfd) =>
             Unwrap(fn_in.val.minfd) >= Len(RemainingDigits(fn_in.val.value))))
        => Unwrap(fn_out) =
               FmtSome(ExpectedNumber(fn_in.val.value, fn_in.val.minfd, fn_in.sep))

\* ------------------------------------------------------------------ properties of get_bundle

HasJunk(text) == \E i \in 1..Len(text) : text[i].junk
Ids(text) == {text[i].id : i \in {j \in 1..Len(text) : ~text[j].junk}}
HasDuplicate(text) ==
    \E i, j \in 1..Len(text) :
        i < j /\ ~text[i].junk /\ ~text[j].junk /\ text[i].id = text[j].id
\* the value the last message with this id gives it
LastValue(text, id) ==
    text[CHOOSE i \in 1..Len(text) :
            /\ ~text[i].junk /\ text[i].id = id
            /\ \A j \in (i + 1)..Len(text) : text[j].junk \/ text[j].id # id].value

\* C10: get_bundle returns no bundle when the catalog text does not parse or
\* holds a key twice; otherwise it returns a bundle, which holds exactly the
\* catalog's messages when the extra text is empty or does not parse, and
\* in which the extra text's messages replace the catalog's when it parses.
C10_GetBundle ==
    IsSome(fn_out) =>
        LET text == fn_in.text
            extra == fn_in.extra_text
            bundle == Unwrap(fn_out)
        IN  IF HasJunk(text) \/ HasDuplicate(text) THEN bundle = None
            ELSE /\ IsSome(bundle)
                 /\ IF extra = <<>> \/ HasJunk(extra)
                    THEN Unwrap(bundle).entries = [id \in Ids(text) |-> LastValue(text, id)]
                    ELSE Unwrap(bundle).entries =
                             [id \in Ids(text) \cup Ids(extra) |->
                                 IF id \in Ids(extra) THEN LastValue(extra, id)
                                 ELSE LastValue(text, id)]

\* C10 witness: the catalog text was accepted, the extra text did not parse
\* although it holds a message that would have replaced one of the catalog's
\* with another value, and a bundle was returned.
C10_Witness ==
    /\ IsSome(fn_out)
    /\ IsSome(Unwrap(fn_out))
    /\ HasJunk(fn_in.extra_text)
    /\ \E id \in Ids(fn_in.text) \cap Ids(fn_in.extra_text) :
           LastValue(fn_in.extra_text, id) # LastValue(fn_in.text, id)

====
